---- MODULE Spec2Model ----
(***************************************************************************)
(* Call-Center-AI: the inbound lead funnel of app.py (the /incoming and    *)
(* /incoming/gather handlers, the in-memory _call_cache, the leads table   *)
(* and the two terminal sinks), its verify_api_key middleware with the     *)
(* outbound /call/start and /call/stop routes, and save_lead of db.py.     *)
(*                                                                         *)
(* Both handlers are `async def` bodies without an await, so each request  *)
(* runs to completion on the event loop: one request is one action.        *)
(***************************************************************************)
EXTENDS Naturals, Sequences, FiniteSets, TLC

\* ---------------------------------------------------------------- bounds
\* The CallSids the telephony vendor delivers requests for.
CallIds == {"CA1", "CA2"}
\* The non-empty speech results a caller can give.
Values == {"a1", "a2"}
\* How many times one CallSid may reach the terminal branch (save + email).
MaxAttempts == 2
\* The call the single-call specification drives with every input.
OneCall == {"CA1"}
\* In the two-call specification each caller has one voice, so a value heard
\* in the other call's data is recognisable.
VoiceOf == [c \in CallIds |-> IF c = "CA1" THEN "a1" ELSE "a2"]

\* ------------------------------------------------------ request vocabulary
\* SpeechResult = Form(None): the form field is missing.
Absent == "<None>"
\* SpeechResult present but the empty string.
Empty == ""
Answers == Values \cup {Absent, Empty}

\* The `step` query parameter is an unvalidated str; "done" stands for
\* every value that is not a key of next_map.
StepParams == {"name", "email", "phone", "done"}

\* `if SpeechResult:` -- None and "" are both falsy.
Truthy(ans) == ans \notin {Absent, Empty}

\* ------------------------------------------------------------- dict helpers
EmptyDict == [k \in {} |-> k]

SetItem(d, k, v) == [x \in (DOMAIN d) \cup {k} |-> IF x = k THEN v ELSE d[x]]

\* dict.setdefault(k, {}) as it leaves the dict
SetDefault(d, k) == IF k \in DOMAIN d THEN d ELSE SetItem(d, k, EmptyDict)

\* Mutant: the whole store is cleared instead of one key removed.
Pop_all(d, k) == EmptyDict

\* dict.pop(k, None) as it leaves the dict
Pop(d, k) == [x \in (DOMAIN d) \ {k} |-> d[x]]

\* Mutant: every session is the one dict object handed to setdefault, so a
\* write through one CallSid shows in all of them.
Record_shared(d, CallSid, step, ans) ==
    LET d1 == SetDefault(d, CallSid)
    IN  IF Truthy(ans)
        THEN [k \in DOMAIN d1 |-> SetItem(d1[k], step, ans)]
        ELSE d1

\* Mutant: the answer replaces the session instead of being added to it.
Record_replace(d, CallSid, step, ans) ==
    LET d1 == SetDefault(d, CallSid)
    IN  IF Truthy(ans)
        THEN [d1 EXCEPT ![CallSid] = SetItem(EmptyDict, step, ans)]
        ELSE d1

\* Mutant: the step is looked up in the successor table before the store
\* is touched, so an unknown step leaves the store alone.
Record_validated(d, CallSid, step, ans) ==
    IF step \notin {"name", "email", "phone"}
    THEN d
    ELSE LET d1 == SetDefault(d, CallSid)
         IN  IF Truthy(ans)
             THEN [d1 EXCEPT ![CallSid] = SetItem(d1[CallSid], step, ans)]
             ELSE d1

\* `data = _call_cache.setdefault(CallSid, {})` and, for a truthy answer,
\* `data[step] = SpeechResult`: the store as these two statements leave it.
Record(d, CallSid, step, ans) ==
    LET d1 == SetDefault(d, CallSid)
    IN  IF Truthy(ans)
        THEN [d1 EXCEPT ![CallSid] = SetItem(d1[CallSid], step, ans)]
        ELSE d1

\* ------------------------------------------------------------------ state
VARIABLES
    cache,      \* _call_cache: CallSid -> (step -> SpeechResult)
    leads,      \* rows of app.py's leads table, keyed by call_sid
    saveLog,    \* per CallSid, save_lead_to_db calls: how many, last arguments
    emailLog,   \* per CallSid, send_lead_email calls: how many, last arguments
    resp,       \* per CallSid, the response to its latest request
    req,        \* the latest request handled
    exc,        \* the exception that ended the latest request, or "none"
    track,      \* per CallSid, its run while it follows the emitted URLs
    db_leads,   \* rows of db.py's Lead table, keyed by phone
    db_req,     \* the latest save_lead call
    db_exc,     \* the exception that ended the latest save_lead, or "none"
    http_req,   \* the latest HTTP request seen by the middleware: path, key
    http_status,\* the status code answered to it (0 before any request)
    handled,    \* the route handler that ran for it, or "none"
    twilio_calls \* the outbound calls created at the vendor, in order: status

vars == <<cache, leads, saveLog, emailLog, resp, req, exc, track,
          db_leads, db_req, db_exc,
          http_req, http_status, handled, twilio_calls>>

funnelVars == <<cache, leads, saveLog, emailLog, resp, req, exc, track>>
dbVars == <<db_leads, db_req, db_exc>>
httpVars == <<http_req, http_status, handled, twilio_calls>>

\* request.headers.get("x-api-key") when the header is missing
NoHeader == "<None>"

\* ------------------------------------------------------------- responses
NoResponse == [kind |-> "none", action |-> "", redirect |-> "", say |-> ""]

\* <Gather action=...step=s><Say>..</Say></Gather><Redirect>...step=s</Redirect>
GatherResponse(s, prompt) ==
    [kind |-> "gather", action |-> s, redirect |-> s, say |-> prompt]

\* <Say>Thank you; we have your info. Goodbye.</Say><Hangup/>
HangupResponse ==
    [kind |-> "hangup", action |-> "", redirect |-> "", say |-> "thanks"]

\* An exception leaving the handler: the framework's 500, no TwiML.
ErrorResponse == [kind |-> "error500", action |-> "", redirect |-> "", say |-> ""]

\* Mutant: the successor table skips the email step.
next_map_skip == [name |-> "phone", email |-> "phone", phone |-> "done"]

next_map == [name |-> "email", email |-> "phone", phone |-> "done"]

prompts == [email |-> "ask-email", phone |-> "ask-phone"]

NoRequest == [path |-> "", call |-> "", step |-> "", answer |-> Absent]

\* ------------------------------------------------------- history: track
\* track[c].status is "new" before the first request of c, "following" while
\* the first request was /incoming and every later one was the gather request
\* the previous response points at, carrying a non-empty answer, and
\* "deviated" from the first request that is anything else.
NewTrack == [status |-> "new", run |-> <<>>]
Deviated == [status |-> "deviated", run |-> <<>>]

TrackIncoming(t) ==
    IF t.status = "new" THEN [status |-> "following", run |-> <<>>]
    ELSE Deviated

TrackGather(t, r, step, ans) ==
    IF /\ t.status = "following"
       /\ r.kind = "gather"
       /\ r.action = step
       /\ Truthy(ans)
    THEN [status |-> "following", run |-> Append(t.run, <<step, ans>>)]
    ELSE Deviated

\* ------------------------------------------------------- history: sink calls
NoCalls == [n |-> 0, last |-> [name |-> "", email |-> "", phone |-> ""]]

Invoked(log, rec) == [n |-> log.n + 1, last |-> rec]

\* ------------------------------------------------------------------- Init
Init ==
    /\ cache = EmptyDict
    /\ leads = EmptyDict
    /\ saveLog = [c \in CallIds |-> NoCalls]
    /\ emailLog = [c \in CallIds |-> NoCalls]
    /\ resp = [c \in CallIds |-> NoResponse]
    /\ req = NoRequest
    /\ exc = "none"
    /\ track = [c \in CallIds |-> NewTrack]
    /\ db_leads = EmptyDict
    /\ db_req = [name |-> "", email |-> "", phone |-> "", notes |-> ""]
    /\ db_exc = "none"
    /\ http_req = [path |-> "", key |-> NoHeader]
    /\ http_status = 0
    /\ handled = "none"
    /\ twilio_calls = <<>>

\* ------------------------------------------------------- POST /incoming
inbound_call(c) ==
    /\ resp' = [resp EXCEPT ![c] = GatherResponse("name", "ask-name")]
    /\ req' = [path |-> "/incoming", call |-> c, step |-> "", answer |-> Absent]
    /\ exc' = "none"
    /\ track' = [track EXCEPT ![c] = TrackIncoming(track[c])]
    /\ UNCHANGED <<cache, leads, saveLog, emailLog>>
    /\ UNCHANGED dbVars

\* ---------------------------------------------------------- the two sinks
\* Mutant: name and email change places in the sink arguments.
LeadRecord_swapped(data) ==
    [name |-> data["email"], email |-> data["name"], phone |-> data["phone"]]

LeadRecord(data) ==
    [name |-> data["name"], email |-> data["email"], phone |-> data["phone"]]

\* Mutant: the table has no primary key check (the insert replaces the row).
PrimaryKeyIgnored(table, call_sid) == FALSE

\* Column("call_sid", String(64), primary_key=True): an insert whose key is
\* already in the table is refused.
PrimaryKeyViolation(table, call_sid) == call_sid \in DOMAIN table

\* leads.insert().values(...); commit: a row is added unless the primary key
\* call_sid is taken or the database call itself fails.
InsertFails(table, call_sid, dbUp) ==
    PrimaryKeyViolation(table, call_sid) \/ ~dbUp

\* Mutant: the insert is never committed, so no row reaches the table.
save_lead_to_db_uncommitted(table, call_sid, rec) == table

save_lead_to_db(table, call_sid, rec) == SetItem(table, call_sid, rec)

\* ------------------------------------------------- POST /incoming/gather
\* dbUp and smtpUp are the environment's answer to the two sink calls.
gather_step(c, step, ans) ==
    LET cache2 == Record(cache, c, step, ans)
        data == cache2[c]
        raise(e) == /\ exc' = e
                    /\ resp' = [resp EXCEPT ![c] = ErrorResponse]
    IN
    /\ req' = [path |-> "/incoming/gather", call |-> c, step |-> step,
               answer |-> ans]
    /\ track' = [track EXCEPT ![c] = TrackGather(track[c], resp[c], step, ans)]
    /\ UNCHANGED dbVars
    /\ IF step \notin DOMAIN next_map
       THEN \* next_map[step] raises KeyError
            /\ raise("KeyError")
            /\ cache' = cache2
            /\ UNCHANGED <<leads, saveLog, emailLog>>
       ELSE IF next_map[step] # "done"
       THEN /\ exc' = "none"
            /\ resp' = [resp EXCEPT ![c] =
                          GatherResponse(next_map[step], prompts[next_map[step]])]
            /\ cache' = cache2
            /\ UNCHANGED <<leads, saveLog, emailLog>>
       ELSE IF ~ ({"name", "email", "phone"} \subseteq DOMAIN data)
       THEN \* data["name"] / data["email"] / data["phone"] raises KeyError
            /\ raise("KeyError")
            /\ cache' = cache2
            /\ UNCHANGED <<leads, saveLog, emailLog>>
       ELSE /\ saveLog[c].n < MaxAttempts
            /\ saveLog' = [saveLog EXCEPT ![c] = Invoked(@, LeadRecord(data))]
            /\ \E dbUp \in BOOLEAN :
                 IF InsertFails(leads, c, dbUp)
                 THEN /\ raise("SQLAlchemyError")
                      /\ cache' = cache2
                      /\ UNCHANGED <<leads, emailLog>>
                 ELSE /\ leads' = save_lead_to_db(leads, c, LeadRecord(data))
                      /\ emailLog' = [emailLog EXCEPT ![c] =
                                        Invoked(@, LeadRecord(data))]
                      /\ \E smtpUp \in BOOLEAN :
                           IF ~smtpUp
                           THEN /\ raise("SMTPException")
                                /\ cache' = cache2
                           ELSE /\ exc' = "none"
                                /\ resp' = [resp EXCEPT ![c] = HangupResponse]
                                /\ cache' = Pop(cache2, c)

\* ------------------------------------------- one call, every input
IncomingRequest ==
    /\ \E c \in OneCall : inbound_call(c)
    /\ UNCHANGED httpVars

GatherRequest ==
    /\ \E c \in OneCall, step \in StepParams, ans \in Answers :
          gather_step(c, step, ans)
    /\ UNCHANGED httpVars

Next == IncomingRequest \/ GatherRequest

Spec == Init /\ [][Next]_vars

\* ------------------------------------------------------ db.py: save_lead
Names == {"Ann", "Bob"}
Emails == {"e1", "e2"}
Phones == {"p1", "p2"}
Notes == {"", "vip"}

LeadRow(name, email, notes) == [name |-> name, email |-> email, notes |-> notes]

\* Mutant: the Lead is merged, so an existing row is overwritten.
LeadKeyIgnored(table, phone) == FALSE

\* phone = Column(String(32), primary_key=True): db.add of a new Lead whose
\* phone is already a row makes commit raise IntegrityError.
LeadKeyViolation(table, phone) == phone \in DOMAIN table

\* db.add(Lead(...)); db.commit() in try/finally: the exception, if any, leaves
\* the function after db.close(), the table as it was.
save_lead(name, email, phone, notes) ==
    /\ db_req' = [name |-> name, email |-> email, phone |-> phone,
                  notes |-> notes]
    /\ \E dbUp \in BOOLEAN :
         IF ~dbUp
         THEN /\ db_exc' = "OperationalError"
              /\ UNCHANGED db_leads
         ELSE IF LeadKeyViolation(db_leads, phone)
         THEN /\ db_exc' = "IntegrityError"
              /\ UNCHANGED db_leads
         ELSE /\ db_exc' = "none"
              /\ db_leads' = SetItem(db_leads, phone, LeadRow(name, email, notes))
    /\ UNCHANGED funnelVars

SaveLeadCall ==
    /\ \E name \in Names, email \in Emails, phone \in Phones, notes \in Notes :
          save_lead(name, email, phone, notes)
    /\ UNCHANGED httpVars

NextDb == SaveLeadCall

SpecDb == Init /\ [][NextDb]_vars

\* ------------------------------------------- two calls, interleaved
IncomingRequestTwo ==
    /\ \E c \in CallIds : inbound_call(c)
    /\ UNCHANGED httpVars

GatherRequestTwo ==
    /\ \E c \in CallIds, step \in DOMAIN next_map :
          \E ans \in {Absent, VoiceOf[c]} :
            gather_step(c, step, ans)
    /\ UNCHANGED httpVars

NextTwo == IncomingRequestTwo \/ GatherRequestTwo

SpecTwo == Init /\ [][NextTwo]_vars

\* ------------------------------------- the HTTP layer: verify_api_key
\* How many outbound calls the vendor is asked to create.
MaxCalls == 2

\* API_KEY = os.getenv("API_KEY"), required to be set and non-empty.
API_KEY == "k-secret"

\* What a client can send as x-api-key.
HeaderValues == {NoHeader, "", "k-wrong", API_KEY}

\* "/stream" stands for every path that has no route.
Paths == {"/health", "/twiml", "/incoming", "/incoming/gather",
          "/call/start", "/call/stop", "/stream"}

ExemptPaths == {"/health", "/twiml", "/incoming", "/incoming/gather"}

\* Mutant: a request without the header passes, as it would if the
\* comparison were made against an unset key.
KeyOk_missing(key) == key = API_KEY \/ key = NoHeader

\* not (request.headers.get("x-api-key") != API_KEY)
KeyOk(key) == key = API_KEY

\* A handler that touches neither the vendor nor the funnel.
Plain(name, status) ==
    /\ handled' = name
    /\ http_status' = status
    /\ UNCHANGED <<twilio_calls, funnelVars>>

health == Plain("health", 200)

twiml == Plain("twiml", 200)

\* twilio_client.calls.create(...): a new call at the vendor, or its error.
start_call ==
    /\ handled' = "start_call"
    /\ UNCHANGED funnelVars
    /\ \E ok \in BOOLEAN :
         IF ok
         THEN /\ Len(twilio_calls) < MaxCalls
              /\ twilio_calls' = Append(twilio_calls, "in-progress")
              /\ http_status' = 200
         ELSE /\ http_status' = 500
              /\ UNCHANGED twilio_calls

\* twilio_client.calls(callConnectionId).update(status="completed"); the
\* vendor raises for a call it does not know.
stop_call(callConnectionId) ==
    /\ handled' = "stop_call"
    /\ UNCHANGED funnelVars
    /\ IF callConnectionId \in DOMAIN twilio_calls
       THEN /\ twilio_calls' =
                 [twilio_calls EXCEPT ![callConnectionId] = "completed"]
            /\ http_status' = 200
       ELSE /\ http_status' = 500
            /\ UNCHANGED twilio_calls

\* call_next(request): the route of the path, 404 when there is none.
call_next(path) ==
    CASE path = "/health" -> health
      [] path = "/twiml" -> twiml
      [] path = "/call/start" -> start_call
      [] path = "/call/stop" ->
            \E callConnectionId \in 1..MaxCalls : stop_call(callConnectionId)
      [] path = "/incoming" ->
            /\ \E c \in OneCall : inbound_call(c)
            /\ handled' = "inbound_call"
            /\ http_status' = 200
            /\ UNCHANGED twilio_calls
      [] path = "/incoming/gather" ->
            /\ \E c \in OneCall, step \in DOMAIN next_map :
                 \E ans \in {Absent, VoiceOf[c]} : gather_step(c, step, ans)
            /\ handled' = "gather_step"
            /\ http_status' = IF exc' = "none" THEN 200 ELSE 500
            /\ UNCHANGED twilio_calls
      [] OTHER -> Plain("none", 404)

verify_api_key(path, key) ==
    /\ http_req' = [path |-> path, key |-> key]
    /\ UNCHANGED dbVars
    /\ IF path \in ExemptPaths
       THEN call_next(path)
       ELSE IF ~KeyOk(key)
       THEN \* JSONResponse({"detail": "Invalid API Key"}, status_code=401)
            Plain("none", 401)
       ELSE call_next(path)

HttpRequest ==
    \E path \in Paths, key \in HeaderValues : verify_api_key(path, key)

NextHttp == HttpRequest

SpecHttp == Init /\ [][NextHttp]_vars

\* ==================================================================== claims
\* Vocabulary of the claims.
FunnelSteps == {"name", "email", "phone"}

IsGather(r) == r.path = "/incoming/gather"

\* The session of call c, the empty mapping when it has none.
SessionOf(d, c) == IF c \in DOMAIN d THEN d[c] ELSE EmptyDict

\* The exceptions the two sinks raise.
SinkErrors == {"SQLAlchemyError", "SMTPException"}

\* A spoken failure notice followed by hang-up.
FailureNotice ==
    [kind |-> "hangup", action |-> "", redirect |-> "", say |-> "sorry"]

\* The run <<name, a>>, <<email, b>>, <<phone, c>> of a call that followed
\* the funnel to its end.
FullRun(t) ==
    /\ t.status = "following"
    /\ Len(t.run) = 3
    /\ t.run[1][1] = "name" /\ t.run[2][1] = "email" /\ t.run[3][1] = "phone"

RunRecord(t) ==
    [name |-> t.run[1][2], email |-> t.run[2][2], phone |-> t.run[3][2]]

C2_ReasksOnEmptyAnswer ==
    (IsGather(req) /\ req.step \in FunnelSteps /\ ~Truthy(req.answer)) =>
        /\ resp[req.call].kind = "gather"
        /\ resp[req.call].action = req.step
        /\ resp[req.call].redirect = req.step

\* C3: a gather request with an absent or empty answer leaves the session
\* store exactly as it was: no session changes and none is created.
C3_EmptyAnswerLeavesStore ==
    [][(IsGather(req') /\ ~Truthy(req'.answer)) => cache' = cache]_vars

\* C4: when a sink raised during the terminal action of a call, the response
\* is a spoken failure notice followed by hang-up and the call has no session
\* left in the store.
C4_SinkFailureIsSpokenAndDiscards ==
    (IsGather(req) /\ exc \in SinkErrors) =>
        /\ resp[req.call] = FailureNotice
        /\ req.call \notin DOMAIN cache

\* C5: when a sink raised during the terminal action of a call, the leads
\* table holds no row for that call.
C5_NoPartialRecord ==
    (IsGather(req) /\ exc \in SinkErrors) => req.call \notin DOMAIN leads

\* C6: a request for call B leaves the session entry of every other call A
\* as it was and invokes no sink for A, and every record handed to a sink
\* for A holds only answers given in requests for A (A's own voice).
C6_CallsDoNotInterfere ==
    [][\A a \in CallIds :
          /\ a # req'.call =>
                /\ (a \in DOMAIN cache') = (a \in DOMAIN cache)
                /\ SessionOf(cache', a) = SessionOf(cache, a)
                /\ saveLog'[a] = saveLog[a]
                /\ emailLog'[a] = emailLog[a]
          /\ saveLog'[a].n > saveLog[a].n =>
                /\ saveLog'[a].last.name = VoiceOf[a]
                /\ saveLog'[a].last.email = VoiceOf[a]
                /\ saveLog'[a].last.phone = VoiceOf[a]
          /\ emailLog'[a].n > emailLog[a].n =>
                emailLog'[a].last = saveLog'[a].last
      ]_vars

\* Both calls hold a session while one of them reaches its terminal step.
C6_Witness ==
    \E a \in CallIds, b \in CallIds :
        /\ a # b
        /\ a \in DOMAIN cache
        /\ "name" \in DOMAIN cache[a]
        /\ req.call = b
        /\ req.step = "phone"
        /\ saveLog[b].n > 0
        /\ saveLog[a].n > 0

\* C7: a gather request with a non-empty answer v for step s of call c makes
\* the session of c its former content with s set to v: where the session is
\* still in the store it is exactly that, and where the request's terminal
\* action removed it, the record handed to the persistence sink is read
\* from exactly that.
C7_RecordAccumulates ==
    [][(IsGather(req') /\ Truthy(req'.answer)) =>
          LET c == req'.call
              expect == SetItem(SessionOf(cache, c), req'.step, req'.answer)
          IN  IF c \in DOMAIN cache'
              THEN cache'[c] = expect
              ELSE /\ req'.step = "phone"
                   /\ saveLog'[c].n = saveLog[c].n + 1
                   /\ saveLog'[c].last.name = expect["name"]
                   /\ saveLog'[c].last.email = expect["email"]
                   /\ saveLog'[c].last.phone = expect["phone"]
      ]_vars

\* After name then email were answered the session holds exactly both values.
C7_Witness ==
    \E c \in DOMAIN cache :
        /\ IsGather(req) /\ req.call = c /\ req.step = "email"
        /\ DOMAIN cache[c] = {"name", "email"}
        /\ cache[c]["email"] = req.answer
        /\ cache[c]["name"] # cache[c]["email"]

IsPrefix(p, q) == Len(p) <= Len(q) /\ \A i \in 1..Len(p) : p[i] = q[i]

StepsOf(run) == [i \in 1..Len(run) |-> run[i][1]]

\* C8: the /incoming response directs the caller to step name; the steps
\* handled for a call that follows the emitted URLs with non-empty answers are
\* a prefix of name, email, phone; and a sink is invoked or a lead row added
\* only in a request for step phone.
C8_ForwardOnly ==
    /\ [](/\ req.path = "/incoming" =>
                /\ resp[req.call].kind = "gather"
                /\ resp[req.call].action = "name"
                /\ resp[req.call].redirect = "name"
          /\ \A c \in CallIds :
                track[c].status = "following" =>
                    IsPrefix(StepsOf(track[c].run), <<"name", "email", "phone">>))
    /\ [][(saveLog' # saveLog \/ emailLog' # emailLog \/ leads' # leads) =>
             (IsGather(req') /\ req'.step = "phone")]_vars

C8_Witness ==
    \E c \in CallIds :
        /\ track[c].status = "following"
        /\ StepsOf(track[c].run) = <<"name", "email", "phone">>
        /\ emailLog[c].n = 1

\* C9 as claimed: a save_lead whose phone already has a row succeeds and
\* leaves that phone's row carrying the name, email and notes of this call.
C9_SecondSaveOverwrites ==
    [][(dbVars' # dbVars /\ db_req'.phone \in DOMAIN db_leads) =>
          /\ db_exc' # "IntegrityError"
          /\ (db_exc' = "none" =>
                db_leads'[db_req'.phone] =
                    LeadRow(db_req'.name, db_req'.email, db_req'.notes))
      ]_vars

\* C9 amended: a save_lead whose phone already has a row raises and leaves
\* the table as it was: the phone keeps its one row, with the name, email
\* and notes of the first call.
C9_SecondSaveFails ==
    [][(dbVars' # dbVars /\ db_req'.phone \in DOMAIN db_leads) =>
          /\ db_exc' # "none"
          /\ db_leads' = db_leads
      ]_vars

\* A second save_lead for a phone was refused and the row differs from it.
C9_Witness ==
    /\ db_exc = "IntegrityError"
    /\ db_req.phone \in DOMAIN db_leads
    /\ db_leads[db_req.phone] # LeadRow(db_req.name, db_req.email, db_req.notes)

\* C10: every row of the leads table stays in it with the same name, email
\* and phone, and a row is added only by a gather request for step phone,
\* for that request's call id.
C10_LeadRowsAreStable ==
    [][/\ \A c \in DOMAIN leads : c \in DOMAIN leads' /\ leads'[c] = leads[c]
       /\ leads' # leads =>
            /\ IsGather(req') /\ req'.step = "phone"
            /\ DOMAIN leads' = DOMAIN leads \cup {req'.call}
      ]_vars

\* A call that has a row reached the terminal step again with other answers.
C10_Witness ==
    \E c \in DOMAIN leads :
        /\ saveLog[c].n >= 2
        /\ saveLog[c].last # leads[c]

\* C11: whenever gather_step reaches the done branch for a call (a request
\* for step phone), the session it reads holds values for name, email and
\* phone, so no read of a missing field ends the request.
C11_TerminalReadsRecordedFields ==
    (IsGather(req) /\ req.step = "phone") =>
        /\ exc # "KeyError"
        /\ req.call \in DOMAIN cache => FunnelSteps \subseteq DOMAIN cache[req.call]

\* C12: a call id that has an entry in the session store keeps it across
\* every request, of its own or of another call, except a request for that
\* same call id for step phone whose terminal action completes (both sinks
\* invoked, no exception, the hang-up response).
C12_SessionNeverReclaimed ==
    [][\A c \in DOMAIN cache :
          c \notin DOMAIN cache' =>
              /\ IsGather(req') /\ req'.call = c /\ req'.step = "phone"
              /\ exc' = "none"
              /\ resp'[c] = HangupResponse
              /\ saveLog'[c].n = saveLog[c].n + 1
              /\ emailLog'[c].n = emailLog[c].n + 1
      ]_vars

\* One call's session outlived its failed terminal action and the other
\* call's successful one.
C12_Witness ==
    \E a \in DOMAIN cache, b \in CallIds :
        /\ a # b
        /\ saveLog[a].n > 0
        /\ req.call = b /\ resp[b] = HangupResponse /\ b \notin DOMAIN cache

\* C13: send_lead_email has been invoked for a call id only if
\* save_lead_to_db was invoked for it before and succeeded: the call id then
\* has a row in the leads table, holding the record the email carried, and
\* the sink was invoked no more often than the persistence sink.
C13_EmailOnlyAfterPersisted ==
    \A c \in CallIds :
        emailLog[c].n > 0 =>
            /\ c \in DOMAIN leads
            /\ leads[c] = emailLog[c].last
            /\ emailLog[c].n <= saveLog[c].n

\* The email went out in the attempt after one whose insert had failed.
C13_Witness ==
    \E c \in CallIds :
        /\ emailLog[c].n = 1
        /\ saveLog[c].n = 2
        /\ exc = "none"
        /\ c \in DOMAIN leads

\* C14: at most one lead email is sent per CallSid, and a request that
\* reaches the insert for a CallSid that already has its row is refused
\* before the email: it ends in the database error, adds or changes no row
\* and invokes no notification, so the CallSid keeps its single row.
C14_OneRowOneEmailPerCall ==
    /\ [](\A c \in CallIds : emailLog[c].n <= 1)
    /\ [][\A c \in DOMAIN leads :
             saveLog'[c].n > saveLog[c].n =>
                 /\ exc' = "SQLAlchemyError"
                 /\ leads' = leads
                 /\ emailLog' = emailLog
         ]_vars

\* The phone request was replayed after the notification had failed.
C14_Witness ==
    \E c \in DOMAIN leads :
        /\ IsGather(req) /\ req.call = c /\ req.step = "phone"
        /\ saveLog[c].n = 2
        /\ emailLog[c].n = 1
        /\ exc = "SQLAlchemyError"
        /\ c \in DOMAIN cache

\* C15 as claimed: a gather request whose step is not name, email or phone
\* ends in an error and leaves the session store unchanged.
C15_UnknownStepLeavesStore ==
    [][(IsGather(req') /\ req'.step \notin FunnelSteps) =>
          /\ exc' = "KeyError"
          /\ cache' = cache
      ]_vars

\* C15 amended: a gather request whose step is not name, email or phone
\* ends in KeyError after the store was written: the call id has a session
\* entry afterwards (created if it had none), a non-empty answer is stored
\* in it under the unknown step, its other values and the other sessions are
\* as before, and no sink is invoked and no row added.
C15_UnknownStepStoredThenError ==
    [][(IsGather(req') /\ req'.step \notin FunnelSteps) =>
          LET c == req'.call
              old == SessionOf(cache, c)
          IN  /\ exc' = "KeyError"
              /\ resp'[c] = ErrorResponse
              /\ DOMAIN cache' = DOMAIN cache \cup {c}
              /\ cache'[c] = IF Truthy(req'.answer)
                             THEN SetItem(old, req'.step, req'.answer)
                             ELSE old
              /\ \A k \in DOMAIN cache \ {c} : cache'[k] = cache[k]
              /\ UNCHANGED <<leads, saveLog, emailLog>>
      ]_vars

\* The answer to an unknown step sits in a session beside a funnel answer.
C15_Witness ==
    /\ IsGather(req) /\ req.step = "done" /\ Truthy(req.answer)
    /\ exc = "KeyError"
    /\ req.call \in DOMAIN cache
    /\ DOMAIN cache[req.call] = {"name", "done"}
    /\ cache[req.call]["done"] = req.answer

\* The four paths the middleware lets through without a key, with the
\* handler each is routed to.
KeylessHandler ==
    [x \in {"/health", "/twiml", "/incoming", "/incoming/gather"} |->
        CASE x = "/health" -> "health"
          [] x = "/twiml" -> "twiml"
          [] x = "/incoming" -> "inbound_call"
          [] OTHER -> "gather_step"]

\* C16: a request to a path other than /health, /twiml, /incoming and
\* /incoming/gather whose x-api-key is not API_KEY is answered 401, reaches
\* no handler and starts or stops no call (nor touches the funnel); a handler
\* ran for such a path only with the key; and the four exempt paths reach
\* their handlers whatever the key.
C16_KeyGuardsNonExemptPaths ==
    /\ [](http_req.path # "" =>
            IF http_req.path \in DOMAIN KeylessHandler
            THEN /\ handled = KeylessHandler[http_req.path]
                 /\ http_status # 401
            ELSE /\ http_req.key # API_KEY =>
                       (http_status = 401 /\ handled = "none")
                 /\ handled # "none" => http_req.key = API_KEY)
    /\ [][(http_req'.path \notin DOMAIN KeylessHandler
             /\ http_req'.key # API_KEY) =>
              /\ twilio_calls' = twilio_calls
              /\ UNCHANGED funnelVars
         ]_vars

\* A stop request without the right key was refused while a call that had
\* been started with the key is still in progress.
C16_Witness ==
    /\ http_req.path = "/call/stop"
    /\ http_req.key # API_KEY
    /\ http_status = 401
    /\ \E i \in DOMAIN twilio_calls : twilio_calls[i] = "in-progress"

====
